---- MODULE Spec2Model ----
(***************************************************************************)
(* Model of football_sync.py: FootballDataPipeline (fetch + map of the     *)
(* standings and matches endpoints, the two Supabase sync operations,      *)
(* run_daily_sync) and the __main__ scheduler loop built on schedule and   *)
(* time.sleep.                                                             *)
(*                                                                         *)
(* Time is counted in ticks of 30 seconds, so that the 60-second sleep is  *)
(* two ticks and a poll can fall on or off the trigger; the calendar day   *)
(* is shortened to DayLen ticks.                                           *)
(*                                                                         *)
(* Of a standings row the model keeps position, team_id and updated_at, of *)
(* a match row match_id, status, home_score, away_score and updated_at;    *)
(* the other columns are copied from the response by the same dictionary   *)
(* lookups as the ones kept.  The id BIGSERIAL column is assigned by the   *)
(* database and never read or written by the program, so a table is the    *)
(* set of its rows.                                                        *)
(*                                                                         *)
(* A database call is one step that either takes effect or raises; an      *)
(* HTTP request either raises a RequestException or returns a response.    *)
(* An exception no except clause catches ends the process (pc = "crashed").*)
(***************************************************************************)
EXTENDS Integers, Sequences, FiniteSets, TLC

\* ---- bounds of the model ----
DayLen == 4
MaxTime == 6
MaxSyncDur == 1
NTeams == 2
NMatches == 2

\* ---- program constants, in ticks ----
\* time.sleep(60): two ticks of 30 seconds
PollInterval == 2
\* schedule.every().day.at("06:00"): tick 1 of the day
TriggerAt == 1

\* None / JSON null / SQL NULL in an integer or timestamp position
NULL == -1

Teams == 1..NTeams
MatchIds == 1..NMatches

VARIABLES
    pc,          \* position of the single thread of the process
    now,         \* datetime.now(), in ticks
    caller,      \* who called run_daily_sync: "main" or "schedule"
    next_run,    \* the schedule job's next_run, NULL before the job is registered
    elapsed,     \* ticks spent so far inside the current run_daily_sync
    standings,   \* the standings table
    matches,     \* the matches table
    st_rows,     \* local `standings` of sync_standings_to_supabase
    m_rows,      \* local `matches` of sync_matches_to_supabase
    m_k,         \* index of the row the for loop of sync_matches_to_supabase is at
    log,         \* last line printed
    \* ---- history variables, read by the properties only ----
    st_resp,     \* response the standings fetch of the current sync received
    m_resp,      \* response the matches fetch of the current sync received
    st_before,   \* standings table when the current StandingsSync began
    st_calls,    \* database calls the current StandingsSync has issued
    st_result,   \* how the StandingsSync of the current run_daily_sync went
    st_gap,      \* the last StandingsSync that deleted did not insert
    m_before,    \* matches table when the current MatchesSync began
    m_result,    \* how the MatchesSync of the current run_daily_sync went
    written,     \* match_id -> {row of the most recent successful upsert for it}
    boot_time,   \* time the process was started
    job_start,   \* time the last scheduled run_daily_sync started
    job_trigger  \* next_run of the job when that run started

vars == <<pc, now, caller, next_run, elapsed, standings, matches, st_rows, m_rows,
          m_k, log, st_resp, m_resp, st_before, st_calls, st_result, st_gap,
          m_before, m_result, written, boot_time, job_start, job_trigger>>

dbVars == <<standings, matches>>
locals == <<st_rows, m_rows, m_k>>
histSt == <<st_resp, st_before, st_calls, st_result, st_gap>>
histM == <<m_resp, m_before, m_result, written>>
schedVars == <<caller, next_run, boot_time, job_start, job_trigger>>

\* ---------------------------------------------------------------------
\* Dates
\* ---------------------------------------------------------------------
\* datetime.now().date(): the calendar day of a timestamp
DateOf(t) == t \div DayLen

\* the timestamp PostgREST reads the ISO date string as: midnight of that day
DateStart(d) == d * DayLen

\* ---------------------------------------------------------------------
\* Upstream API responses
\* ---------------------------------------------------------------------
RECURSIVE SeqsUpTo(_, _)
SeqsUpTo(S, n) ==
    IF n = 0 THEN {<<>>}
    ELSE LET shorter == SeqsUpTo(S, n - 1)
         IN  shorter \cup {Append(s, x) : s \in {q \in shorter : Len(q) = n - 1}, x \in S}

Distinct(s) == \A i, j \in 1..Len(s) : i # j => s[i] # s[j]

\* one entry of data['standings'][0]['table'], as a dictionary: t = 0 stands
\* for an entry whose team has no 'id' key
TableEntry(i, t) ==
    IF t = 0 THEN [position |-> i] ELSE [position |-> i, team_id |-> t]

\* the tables the API serves list each team once
StandingsTables ==
    {[i \in 1..Len(s) |-> TableEntry(i, s[i])] :
        s \in {q \in SeqsUpTo(Teams \cup {0}, NTeams) :
                 \A i, j \in 1..Len(q) : (i # j /\ q[i] # 0) => q[i] # q[j]}}

\* ok = FALSE: requests raised a RequestException (transport error, non-2xx
\* status, body that is not JSON); groups: data['standings'], <<>> when the key
\* is missing or the list is empty
StandingsResponses ==
    {[ok |-> FALSE, groups |-> <<>>], [ok |-> TRUE, groups |-> <<>>]}
    \cup {[ok |-> TRUE, groups |-> <<t>>] : t \in StandingsTables}

\* score['fullTime'] of a match of data['matches']: <<>> when the keys are
\* missing, <<NULL, NULL>> when they are null, else the pair of goals
Scores == {<<>>, <<NULL, NULL>>, <<2, 1>>}

StatusOf(score) == IF score = <<2, 1>> THEN "FINISHED" ELSE "SCHEDULED"

\* one entry of data['matches'], as a dictionary
ApiMatch(id, score) ==
    IF score = <<>>
    THEN [id |-> id, status |-> StatusOf(score)]
    ELSE [id |-> id, status |-> StatusOf(score), home |-> score[1], away |-> score[2]]

\* a dictionary lookup d[k] raises KeyError when the key is missing
HasKey(d, k) == k \in DOMAIN d

MatchLists ==
    {[i \in 1..Len(s) |-> ApiMatch(s[i][1], s[i][2])] :
        s \in {q \in SeqsUpTo(MatchIds \X Scores, NMatches) :
                 \A i, j \in 1..Len(q) : i # j => q[i][1] # q[j][1]}}

MatchesResponses ==
    {[ok |-> FALSE, matches |-> <<>>]}
    \cup {[ok |-> TRUE, matches |-> l] : l \in MatchLists}

\* ---------------------------------------------------------------------
\* get_premier_league_standings / get_recent_matches
\* A result is [exc |-> whether an exception left the function, rows |-> list]
\* ---------------------------------------------------------------------
StandingRow(team, t) ==
    [position |-> team.position, team_id |-> team.team_id, updated_at |-> t]

get_premier_league_standings(resp, t) ==
    IF ~resp.ok
    THEN [exc |-> FALSE, rows |-> <<>>]
    ELSE IF Len(resp.groups) > 0
    THEN LET table == resp.groups[1]
         IN  IF \E i \in 1..Len(table) : ~HasKey(table[i], "team_id")
             THEN [exc |-> TRUE, rows |-> <<>>]
             ELSE [exc |-> FALSE,
                   rows |-> [i \in 1..Len(table) |-> StandingRow(table[i], t)]]
    ELSE [exc |-> FALSE, rows |-> <<>>]

MatchRow(match, t) ==
    [match_id |-> match.id, status |-> match.status,
     home_score |-> match.home, away_score |-> match.away,
     updated_at |-> t]

get_recent_matches(resp, t) ==
    IF ~resp.ok
    THEN [exc |-> FALSE, rows |-> <<>>]
    ELSE IF \E i \in 1..Len(resp.matches) :
                 ~(HasKey(resp.matches[i], "home") /\ HasKey(resp.matches[i], "away"))
    THEN [exc |-> TRUE, rows |-> <<>>]
    ELSE [exc |-> FALSE,
          rows |-> [i \in 1..Len(resp.matches) |-> MatchRow(resp.matches[i], t)]]

\* ---------------------------------------------------------------------
\* The database
\* ---------------------------------------------------------------------
Range(s) == {s[i] : i \in 1..Len(s)}

\* gt in place of gte
DeleteGt(table, d) == {r \in table : ~(r.updated_at > DateStart(d))}

\* delete().gte('updated_at', date): the rows that survive
DeleteGte(table, d) == {r \in table : ~(r.updated_at >= DateStart(d))}

\* team_id INTEGER UNIQUE: whether a bulk insert of rows is rejected
UniqueViolation(table, rows) ==
    \/ \E r \in table : \E i \in 1..Len(rows) : rows[i].team_id = r.team_id
    \/ ~Distinct([i \in 1..Len(rows) |-> rows[i].team_id])

Insert(table, rows) == table \cup Range(rows)

\* a plain insert that ignores the conflict target
UpsertInsertOnly(table, row) == table \cup {row}

\* ON CONFLICT DO NOTHING: the row already there is kept
UpsertKeepOld(table, row) ==
    IF \E r \in table : r.match_id = row.match_id THEN table ELSE table \cup {row}

\* upsert(match, on_conflict='match_id'): update the row with the key, or insert
Upsert(table, row) ==
    {r \in table : r.match_id # row.match_id} \cup {row}

RECURSIVE UpsertPrefix(_, _, _)
\* the table after the first k iterations of the for loop
UpsertPrefix(table, rows, k) ==
    IF k = 0 THEN table
    ELSE Upsert(UpsertPrefix(table, rows, k - 1), rows[k])

RowsOf(table, id) == {r \in table : r.match_id = id}

\* ---------------------------------------------------------------------
\* schedule
\* ---------------------------------------------------------------------
\* Job._schedule_next_run for every().day.at("06:00"): the first 06:00 after t
NextTrigger(t) ==
    LET today == DateStart(DateOf(t)) + TriggerAt
    IN  IF today > t THEN today ELSE today + DayLen

\* a job run as soon as it falls due before the next poll
ShouldRunAhead(t, nr) == t + PollInterval >= nr

\* Job.should_run
ShouldRun(t, nr) == t >= nr

\* the guard of sync_standings_to_supabase left out
NotStandingsNever(rows) == FALSE

\* `not standings` / `not matches`: an empty list is falsy
NotStandings(rows) == Len(rows) = 0

NotMatches(rows) == Len(rows) = 0

SyncPcs == {"st_fetch", "st_delete", "st_insert", "m_fetch", "m_upsert", "sync_end"}

NoStandingsResponse == [ok |-> FALSE, groups |-> <<>>]
NoMatchesResponse == [ok |-> FALSE, matches |-> <<>>]

\* the locals of a run_daily_sync that is not running, and the history of it
Cleared ==
    /\ elapsed = 0
    /\ st_rows = <<>>
    /\ m_rows = <<>>
    /\ m_k = 0
    /\ st_resp = NoStandingsResponse
    /\ m_resp = NoMatchesResponse
    /\ st_before = {}
    /\ st_calls = <<>>
    /\ st_result = "none"
    /\ m_before = {}
    /\ m_result = "none"

Init ==
    /\ pc = "boot"
    /\ now \in 0..(DayLen - 1)
    /\ boot_time = now
    /\ caller = "main"
    /\ next_run = NULL
    /\ standings = {}
    /\ matches = {}
    /\ log = ""
    /\ Cleared
    /\ st_gap = FALSE
    /\ written = [id \in MatchIds |-> {}]
    /\ job_start = NULL
    /\ job_trigger = NULL

\* entry to run_daily_sync and, in it, to sync_standings_to_supabase
BeginSync(who) ==
    /\ pc' = "st_fetch"
    /\ caller' = who
    /\ log' = "Starting daily sync"
    /\ st_before' = standings
    /\ st_result' = "running"
    /\ UNCHANGED <<now, elapsed, locals, dbVars, st_resp, st_calls, st_gap, histM,
                   boot_time>>

\* __main__: pipeline.run_daily_sync() on start
RunOnStart ==
    /\ pc = "boot"
    /\ BeginSync("main")
    /\ UNCHANGED <<next_run, job_start, job_trigger>>

\* sync_standings_to_supabase up to the `if not standings` test, the fetch
\* answered by one of the responses R
StFetch(R) ==
    /\ pc = "st_fetch"
    /\ \E resp \in R :
         LET res == get_premier_league_standings(resp, now)
         IN  /\ st_resp' = resp
             /\ IF res.exc
                THEN /\ pc' = "crashed"
                     /\ st_result' = "map_error"
                     /\ log' = "Traceback"
                     /\ UNCHANGED st_rows
                ELSE IF NotStandings(res.rows)
                THEN /\ pc' = "m_fetch"
                     /\ st_result' = IF resp.ok THEN "empty" ELSE "fetch_error"
                     /\ log' = "No standings data to sync"
                     /\ UNCHANGED st_rows
                ELSE /\ pc' = "st_delete"
                     /\ st_rows' = res.rows
                     /\ UNCHANGED <<st_result, log>>
    /\ UNCHANGED <<now, elapsed, m_rows, m_k, st_before, st_calls, st_gap>>
    /\ UNCHANGED <<dbVars, histM, schedVars>>

\* the delete of today's rows; ok = FALSE: the call raised
StDelete ==
    /\ pc = "st_delete"
    /\ st_calls' = Append(st_calls, "delete")
    /\ \E ok \in BOOLEAN :
         IF ok
         THEN /\ standings' = DeleteGte(standings, DateOf(now))
              /\ pc' = "st_insert"
              /\ UNCHANGED <<st_result, log>>
         ELSE /\ pc' = "m_fetch"
              /\ st_result' = "delete_failed"
              /\ log' = "Error syncing standings"
              /\ UNCHANGED standings
    /\ UNCHANGED <<now, elapsed, matches, locals, st_resp, st_before, st_gap>>
    /\ UNCHANGED <<histM, schedVars>>

\* the insert of the mapped rows; ok = FALSE: the call raised before the
\* database took the rows
StInsert ==
    /\ pc = "st_insert"
    /\ st_calls' = Append(st_calls, "insert")
    /\ pc' = "m_fetch"
    /\ \E ok \in BOOLEAN :
         IF ~ok
         THEN /\ st_result' = "insert_failed"
              /\ st_gap' = TRUE
              /\ log' = "Error syncing standings"
              /\ UNCHANGED standings
         ELSE IF UniqueViolation(standings, st_rows)
         THEN /\ st_result' = "insert_conflict"
              /\ st_gap' = TRUE
              /\ log' = "Error syncing standings"
              /\ UNCHANGED standings
         ELSE /\ standings' = Insert(standings, st_rows)
              /\ st_result' = "ok"
              /\ st_gap' = FALSE
              /\ log' = "Synced teams to standings table"
    /\ UNCHANGED <<now, elapsed, matches, locals, st_resp, st_before>>
    /\ UNCHANGED <<histM, schedVars>>

\* sync_matches_to_supabase up to the `if not matches` test, the fetch
\* answered by one of the responses R
MFetch(R) ==
    /\ pc = "m_fetch"
    /\ \E resp \in R :
         LET res == get_recent_matches(resp, now)
         IN  /\ m_resp' = resp
             /\ m_before' = matches
             /\ IF res.exc
                THEN /\ pc' = "crashed"
                     /\ m_result' = "map_error"
                     /\ log' = "Traceback"
                     /\ UNCHANGED <<m_rows, m_k>>
                ELSE IF NotMatches(res.rows)
                THEN /\ pc' = "sync_end"
                     /\ m_result' = IF resp.ok THEN "empty" ELSE "fetch_error"
                     /\ log' = "No match data to sync"
                     /\ UNCHANGED <<m_rows, m_k>>
                ELSE /\ pc' = "m_upsert"
                     /\ m_rows' = res.rows
                     /\ m_k' = 1
                     /\ m_result' = "running"
                     /\ UNCHANGED log
    /\ UNCHANGED <<now, elapsed, st_rows, written>>
    /\ UNCHANGED <<dbVars, histSt, schedVars>>

\* one iteration of the for loop: the upsert of matches[m_k]; ok = FALSE: the
\* call raised and the except clause ends the loop
MUpsert ==
    /\ pc = "m_upsert"
    /\ \E ok \in BOOLEAN :
         IF ok
         THEN /\ matches' = Upsert(matches, m_rows[m_k])
              /\ written' = [written EXCEPT ![m_rows[m_k].match_id] = {m_rows[m_k]}]
              /\ IF m_k = Len(m_rows)
                 THEN /\ pc' = "sync_end"
                      /\ m_result' = "ok"
                      /\ log' = "Synced matches to matches table"
                      /\ UNCHANGED m_k
                 ELSE /\ m_k' = m_k + 1
                      /\ UNCHANGED <<pc, m_result, log>>
         ELSE /\ pc' = "sync_end"
              /\ m_result' = "upsert_failed"
              /\ log' = "Error syncing matches"
              /\ UNCHANGED <<matches, written, m_k>>
    /\ UNCHANGED <<now, elapsed, standings, st_rows, m_rows, m_resp, m_before>>
    /\ UNCHANGED <<histSt, schedVars>>

\* run_daily_sync returns: its locals are gone
EndSync ==
    /\ pc = "sync_end"
    /\ elapsed' = 0
    /\ st_rows' = <<>>
    /\ m_rows' = <<>>
    /\ m_k' = 0
    /\ st_resp' = NoStandingsResponse
    /\ m_resp' = NoMatchesResponse
    /\ st_before' = {}
    /\ st_calls' = <<>>
    /\ st_result' = "none"
    /\ m_before' = {}
    /\ m_result' = "none"
    /\ UNCHANGED <<now, dbVars, st_gap, written, caller, boot_time, job_start,
                   job_trigger>>

\* run_daily_sync returns to the start-up code, which registers the job:
\* schedule.every().day.at("06:00").do(pipeline.run_daily_sync), and the loop
\* is entered at run_pending
ReturnToMain ==
    /\ caller = "main"
    /\ EndSync
    /\ next_run' = NextTrigger(now)
    /\ pc' = "poll"
    /\ log' = "Scheduler started"

\* run_daily_sync returns to Job.run, which sets last_run and computes the
\* next run from the time the job ended; then time.sleep(60) is called
ReturnToJob ==
    /\ caller = "schedule"
    /\ EndSync
    /\ next_run' = NextTrigger(now)
    /\ pc' = "sleep"
    /\ log' = "Sync completed"

\* schedule.run_pending() with the job due: Job.run calls run_daily_sync
PollRun ==
    /\ pc = "poll"
    /\ ShouldRun(now, next_run)
    /\ job_start' = now
    /\ job_trigger' = next_run
    /\ BeginSync("schedule")
    /\ UNCHANGED next_run

\* schedule.run_pending() with nothing due
PollIdle ==
    /\ pc = "poll"
    /\ ~ShouldRun(now, next_run)
    /\ pc' = "sleep"
    /\ UNCHANGED <<now, elapsed, locals, log, dbVars, histSt, histM, schedVars>>

\* time.sleep(60), then the loop calls run_pending again
Sleep ==
    /\ pc = "sleep"
    /\ now + PollInterval <= MaxTime
    /\ now' = now + PollInterval
    /\ pc' = "poll"
    /\ UNCHANGED <<elapsed, locals, log, dbVars, histSt, histM, schedVars>>

\* the blocking calls of run_daily_sync take time: no timeout is set on any
\* of them
Elapse ==
    /\ pc \in SyncPcs
    /\ elapsed < MaxSyncDur
    /\ now + 1 <= MaxTime
    /\ now' = now + 1
    /\ elapsed' = elapsed + 1
    /\ UNCHANGED <<pc, locals, log, dbVars, histSt, histM, schedVars>>

StFetchAny == StFetch(StandingsResponses)
MFetchAny == MFetch(MatchesResponses)

Next ==
    \/ RunOnStart
    \/ StFetchAny
    \/ StDelete
    \/ StInsert
    \/ MFetchAny
    \/ MUpsert
    \/ ReturnToMain
    \/ ReturnToJob
    \/ PollRun
    \/ PollIdle
    \/ Sleep
    \/ Elapse

Spec == Init /\ [][Next]_vars

\* ---------------------------------------------------------------------
\* The two syncs share no state: the standings properties are explored with
\* the matches endpoint answering from a short list of responses
\* (SpecStandings), the matches properties with the standings endpoint doing
\* so (SpecMatches).  Each short list keeps a failed request, a response the
\* mapper cannot map and a valid one.
\* ---------------------------------------------------------------------
FewStandingsResponses ==
    {NoStandingsResponse,
     [ok |-> TRUE, groups |-> <<<<TableEntry(1, 0)>>>>],
     [ok |-> TRUE, groups |-> <<<<TableEntry(1, 1)>>>>]}

FewMatchesResponses ==
    {NoMatchesResponse,
     [ok |-> TRUE, matches |-> <<ApiMatch(1, <<>>)>>],
     [ok |-> TRUE, matches |-> <<ApiMatch(1, <<2, 1>>)>>]}

StFetchFew == StFetch(FewStandingsResponses)
MFetchFew == MFetch(FewMatchesResponses)

NextStandings ==
    \/ RunOnStart
    \/ StFetchAny
    \/ StDelete
    \/ StInsert
    \/ MFetchFew
    \/ MUpsert
    \/ ReturnToMain
    \/ ReturnToJob
    \/ PollRun
    \/ PollIdle
    \/ Sleep
    \/ Elapse

SpecStandings == Init /\ [][NextStandings]_vars

NextMatches ==
    \/ RunOnStart
    \/ StFetchFew
    \/ StDelete
    \/ StInsert
    \/ MFetchAny
    \/ MUpsert
    \/ ReturnToMain
    \/ ReturnToJob
    \/ PollRun
    \/ PollIdle
    \/ Sleep
    \/ Elapse

\* the process started at the trigger time of day: the job is first due on
\* the next day
InitAtTrigger == Init /\ now = TriggerAt

SpecMatches == InitAtTrigger /\ [][NextMatches]_vars

TypeOK ==
    /\ pc \in {"boot", "poll", "sleep", "crashed"} \cup SyncPcs
    /\ now \in 0..MaxTime
    /\ \A r \in standings : r.team_id \in Teams /\ r.updated_at \in 0..MaxTime
    /\ \A r \in matches : r.match_id \in MatchIds /\ r.updated_at \in 0..MaxTime

\* =====================================================================
\* Properties
\* =====================================================================

\* the standings fetch of the current sync has been made and mapped
StandingsFetched == st_result \notin {"none", "running"} \/ pc \in {"st_delete", "st_insert"}

\* the fetch yielded no rows: the request failed, or the response has no
\* standings group, or the group's table is empty
StandingsFetchEmpty ==
    \/ ~st_resp.ok
    \/ Len(st_resp.groups) = 0
    \/ Len(st_resp.groups[1]) = 0

\* C1: when the standings fetch yields an empty result (failed request, or no
\* standings group in the response), StandingsSync issues neither the delete
\* nor the insert and the standings table is as it was before the sync.
C1_EmptyFetchIsNoOp ==
    (StandingsFetched /\ StandingsFetchEmpty) =>
        (st_calls = <<>> /\ standings = st_before)

\* C1 witness: a sync met a populated table with an empty fetch and ended
C1_Witness ==
    /\ pc = "m_fetch"
    /\ StandingsFetchEmpty
    /\ st_before # {}
    /\ standings = st_before

\* the response of the current sync is a valid one with N >= 1 entries
StandingsFetchValid ==
    /\ st_resp.ok
    /\ Len(st_resp.groups) > 0
    /\ Len(st_resp.groups[1]) >= 1
    /\ \A i \in 1..Len(st_resp.groups[1]) : HasKey(st_resp.groups[1][i], "team_id")

\* C4 as claimed: whatever way StandingsSync fails (fetch error, malformed
\* response during mapping, database error), MatchesSync is started after it
\* in the same DailySync.
C4_AsClaimed ==
    st_result \in {"fetch_error", "map_error", "delete_failed", "insert_failed",
                   "insert_conflict"}
        => pc \in {"m_fetch", "m_upsert", "sync_end"}

\* C6 as claimed: a valid standings response with N >= 1 entries, met by a
\* database that serves both calls, ends with exactly N rows written, one per
\* entry, stamped with the date of the sync, whatever rows the table held.
C6_AsClaimed ==
    (pc = "m_fetch" /\ StandingsFetchValid
        /\ st_result \notin {"delete_failed", "insert_failed"}) =>
        /\ Cardinality(Range(st_rows)) = Len(st_resp.groups[1])
        /\ Range(st_rows) \subseteq standings
        /\ \A r \in standings :
             r.updated_at >= DateStart(DateOf(st_rows[1].updated_at))
                => r \in Range(st_rows)

\* the delete of the current StandingsSync was done and its insert was not
DeletedNotInserted ==
    pc = "st_insert" \/ st_result \in {"insert_failed", "insert_conflict"}

\* C9: the delete-then-insert is not atomic.  Between the two calls, and after
\* an insert that failed, the table holds only rows it held before the sync
\* (none of the new ones), none of them of today: the deleted rows are not
\* brought back.  From then on the table changes only when a StandingsSync
\* inserts successfully.
C9_NotAtomic ==
    /\ [](DeletedNotInserted =>
            /\ standings \subseteq st_before
            /\ Range(st_rows) \cap standings = {}
            /\ \A r \in standings : DateOf(r.updated_at) < DateOf(now))
    /\ [][(st_gap /\ standings' # standings) => st_result' = "ok"]_vars

\* C9 witness: the insert failed after the delete had removed today's rows
C9_Witness ==
    /\ st_result = "insert_failed"
    /\ st_gap
    /\ \E r \in st_before : DateOf(r.updated_at) = DateOf(now) /\ r \notin standings

\* the 06:00 of day d
TriggerOf(d) == DateStart(d) + TriggerAt

Days == 0..(MaxTime \div DayLen)

\* the poll interval after T has gone by, the poll at its end included
PollIntervalPassed(T) ==
    \/ now > T + PollInterval
    \/ now = T + PollInterval /\ pc = "sleep"

\* C7 as claimed: on every day on which the process runs across 06:00, a
\* scheduled DailySync starts no earlier than 06:00 and no later than one poll
\* interval after it.
C7_AsClaimed ==
    \A d \in Days :
        (/\ pc # "crashed"
         /\ boot_time < TriggerOf(d)
         /\ PollIntervalPassed(TriggerOf(d))
         /\ now < TriggerOf(d) + DayLen) =>
            /\ job_trigger = TriggerOf(d)
            /\ TriggerOf(d) <= job_start
            /\ job_start <= TriggerOf(d) + PollInterval

\* C7 amended: every scheduled DailySync starts no earlier than the 06:00 it
\* was scheduled for and no later than one poll interval after it; and whenever
\* the clock crosses 06:00 during the loop's sleep, the job is due at the poll
\* that ends the sleep.
C7_ScheduledStart ==
    /\ [](job_start # NULL =>
            /\ job_trigger % DayLen = TriggerAt
            /\ job_trigger <= job_start
            /\ job_start <= job_trigger + PollInterval)
    /\ [][\A d \in Days :
            (pc = "sleep" /\ pc' = "poll" /\ now < TriggerOf(d) /\ TriggerOf(d) <= now')
                => (next_run' = TriggerOf(d) /\ ShouldRun(now', next_run'))]_vars

\* C7 witness: a scheduled DailySync that started after its 06:00, at the
\* first poll that followed it
C7_Witness ==
    /\ pc = "st_fetch"
    /\ caller = "schedule"
    /\ job_start = now
    /\ job_start > job_trigger

\* the matches fetch of the current sync has been made and mapped
MatchesFetched == m_result # "none"

\* a match of the response has no score fields
Scoreless(match) == ~HasKey(match, "home") /\ ~HasKey(match, "away")

C3_AsClaimed ==
    \A i \in 1..Len(m_resp.matches) :
        (MatchesFetched /\ Scoreless(m_resp.matches[i])) =>
            /\ pc # "crashed"
            /\ \E j \in 1..Len(m_rows) :
                 /\ m_rows[j].match_id = m_resp.matches[i].id
                 /\ m_rows[j].home_score = NULL
                 /\ m_rows[j].away_score = NULL

\* C5 as claimed: no error of a scheduled DailySync ends the scheduler loop:
\* the error is caught and logged, and run_daily_sync returns to the loop.
C5_AsClaimed == ~(caller = "schedule" /\ pc = "crashed")

\* C8 as claimed: at the end of a MatchesSync every match_id of its payload
\* has exactly one row, holding the values this sync fetched for it.
C8_AsClaimed ==
    (pc = "sync_end" /\ MatchesFetched) =>
        \A i \in 1..Len(m_rows) :
            RowsOf(matches, m_rows[i].match_id) = {m_rows[i]}

\* C8 amended: a match row is never deleted and never doubled: every match_id
\* ever written has exactly one row, which holds the values of the most recent
\* upsert of that match_id that succeeded.
C8_LastWriteWins ==
    \A id \in MatchIds :
        /\ RowsOf(matches, id) = written[id]
        /\ Cardinality(written[id]) <= 1

\* C8 witness: a row without a score was replaced by the finished 2-1 result
C8_Witness ==
    /\ pc = "sync_end"
    /\ \E r \in m_before : \E w \in matches :
         /\ r.match_id = w.match_id
         /\ r.home_score = NULL
         /\ w.home_score = 2 /\ w.away_score = 1 /\ w.status = "FINISHED"
         /\ RowsOf(matches, w.match_id) = {w}

\* C10: when the upsert of the k-th row fails, the rows before it are in the
\* table with their new values, the k-th and the later rows are as they were
\* before the sync, the error is printed and the sync returns to DailySync.
C10_PartialBatch ==
    m_result = "upsert_failed" =>
        /\ \A i \in 1..(m_k - 1) : RowsOf(matches, m_rows[i].match_id) = {m_rows[i]}
        /\ \A i \in m_k..Len(m_rows) :
             RowsOf(matches, m_rows[i].match_id) = RowsOf(m_before, m_rows[i].match_id)
        /\ log = "Error syncing matches"
        /\ pc = "sync_end"

\* C10 witness: the second upsert failed; the first row replaced an older one
\* and the second row's older version is still there
C10_Witness ==
    /\ m_result = "upsert_failed"
    /\ m_k = 2
    /\ \E r \in m_before : r.match_id = m_rows[1].match_id /\ r \notin matches
    /\ \E r \in m_before : r.match_id = m_rows[2].match_id /\ r \in matches /\ r # m_rows[2]

====
